---------------------------- MODULE Spec2Model ----------------------------
(***************************************************************************)
(* A model of src/libstoplight.py: class Server, the per-connection        *)
(* message framer.  One Server object, its socket and its selector         *)
(* registration are the state; the readiness handlers read(), write(),     *)
(* process_events() and the teardown close() are the actions.              *)
(*                                                                         *)
(* Bytes are the integers 0..255, byte strings and text are sequences (of  *)
(* bytes, of code points).  Python values are records of one shape,        *)
(*     [t |-> type name, n |-> integer, s |-> bytes/code points,           *)
(*      o |-> items],                                                      *)
(* so that None, int, bool, str, bytes, dict and list values can be        *)
(* compared with = whatever their types; an item of a dict or list is      *)
(* [k |-> key (code points, <<>> in a list), v |-> value].                 *)
(***************************************************************************)
EXTENDS Integers, Sequences, FiniteSets, TLC

(***************************************************************************)
(* Python values                                                           *)
(***************************************************************************)
PyNone == [t |-> "None", n |-> 0, s |-> <<>>, o |-> <<>>]
PyInt(k) == [t |-> "int", n |-> k, s |-> <<>>, o |-> <<>>]
PyBool(b) == [t |-> "bool", n |-> IF b THEN 1 ELSE 0, s |-> <<>>, o |-> <<>>]
PyStr(cps) == [t |-> "str", n |-> 0, s |-> cps, o |-> <<>>]
PyBytes(bs) == [t |-> "bytes", n |-> 0, s |-> bs, o |-> <<>>]
PyDict(items) == [t |-> "dict", n |-> 0, s |-> <<>>, o |-> items]
PyList(items) == [t |-> "list", n |-> 0, s |-> <<>>, o |-> items]

\* bool(v): the truth value Python's `if v:` tests.
Truthy(v) ==
    CASE v.t = "None" -> FALSE
      [] v.t \in {"int", "bool"} -> v.n # 0
      [] v.t \in {"str", "bytes"} -> Len(v.s) > 0
      [] OTHER -> Len(v.o) > 0

\* `key in d` for a dict d.
HasKey(d, key) == \E i \in 1..Len(d.o) : d.o[i].k = key

\* d[key] for a dict d that has the key.
GetItem(d, key) == d.o[CHOOSE i \in 1..Len(d.o) : d.o[i].k = key].v

\* d[key] = val on the item list of a dict: a repeated key keeps its place and
\* takes the later value.
DictSet(items, key, val) ==
    IF \E i \in 1..Len(items) : items[i].k = key
    THEN [i \in 1..Len(items) |->
             IF items[i].k = key THEN [k |-> key, v |-> val] ELSE items[i]]
    ELSE Append(items, [k |-> key, v |-> val])

(***************************************************************************)
(* Text of the protocol (ASCII code points)                                *)
(***************************************************************************)
K_byteorder == <<98, 121, 116, 101, 111, 114, 100, 101, 114>>
K_content_type == <<99, 111, 110, 116, 101, 110, 116, 45, 116, 121, 112, 101>>
K_content_encoding ==
    <<99, 111, 110, 116, 101, 110, 116, 45, 101, 110, 99, 111, 100, 105, 110, 103>>
K_content_length ==
    <<99, 111, 110, 116, 101, 110, 116, 45, 108, 101, 110, 103, 116, 104>>
T_text_json == <<116, 101, 120, 116, 47, 106, 115, 111, 110>>
T_text_plain == <<116, 101, 120, 116, 47, 112, 108, 97, 105, 110>>
E_utf_8 == <<117, 116, 102, 45, 56>>
E_binary == <<98, 105, 110, 97, 114, 121>>
B_little == <<108, 105, 116, 116, 108, 101>>
B_big == <<98, 105, 103>>
K_result == <<114, 101, 115, 117, 108, 116>>
K_cmd == <<99, 109, 100>>
V_status == <<115, 116, 97, 116, 117, 115>>

(***************************************************************************)
(* Exceptions.  A method's result carries exc: NoExc when it returned,     *)
(* else the name of the exception it raised.                               *)
(***************************************************************************)
NoExc == "none"

(***************************************************************************)
(* str.encode("utf-8") and the utf-8 decoding of TextIOWrapper, for code   *)
(* points below 65536 (one to three bytes).  Both copy a run of ASCII in   *)
(* one step and recurse once per non-ASCII character.                      *)
(***************************************************************************)
First(S) == CHOOSE j \in S : \A k \in S : j <= k

RECURSIVE utf8_encode(_)
utf8_encode(cps) ==
    LET wide == {j \in 1..Len(cps) : cps[j] >= 128}
    IN  IF wide = {} THEN cps
        ELSE LET j == First(wide)
                 c == cps[j]
                 b == IF c < 2048 THEN <<192 + (c \div 64), 128 + (c % 64)>>
                      ELSE <<224 + (c \div 4096), 128 + ((c \div 64) % 64),
                             128 + (c % 64)>>
             IN  SubSeq(cps, 1, j - 1) \o b
                 \o utf8_encode(SubSeq(cps, j + 1, Len(cps)))

IsCont(bs, i) == i <= Len(bs) /\ bs[i] >= 128 /\ bs[i] < 192

\* [ok, v]: acc and the code points of bs from position i on, ok = FALSE for a
\* UnicodeDecodeError.
RECURSIVE utf8_decode(_, _, _)
utf8_decode(bs, i, acc) ==
    LET wide == {j \in i..Len(bs) : bs[j] >= 128}
    IN  IF wide = {} THEN [ok |-> TRUE, v |-> acc \o SubSeq(bs, i, Len(bs))]
        ELSE LET j == First(wide)
                 b == bs[j]
                 run == acc \o SubSeq(bs, i, j - 1)
             IN  IF b >= 194 /\ b < 224 /\ IsCont(bs, j + 1)
                 THEN utf8_decode(bs, j + 2,
                          Append(run, (b - 192) * 64 + (bs[j + 1] - 128)))
                 ELSE IF b >= 224 /\ b < 240
                         /\ IsCont(bs, j + 1) /\ IsCont(bs, j + 2)
                         /\ (b = 224 => bs[j + 1] >= 160)
                         /\ (b = 237 => bs[j + 1] < 160)
                 THEN utf8_decode(bs, j + 3,
                          Append(run, (b - 224) * 4096 + (bs[j + 1] - 128) * 64
                                      + (bs[j + 2] - 128)))
                 ELSE [ok |-> FALSE, v |-> <<>>]

(***************************************************************************)
(* json.dumps(obj, ensure_ascii=False): the text of a value, with the      *)
(* default separators ", " and ": ".                                       *)
(***************************************************************************)
RECURSIVE Digits(_)
Digits(k) == IF k < 10 THEN <<48 + k>> ELSE Digits(k \div 10) \o <<48 + (k % 10)>>

RECURSIVE EscapeStr(_)
EscapeStr(cps) ==
    LET special == {j \in 1..Len(cps) : cps[j] \in {34, 92}}
    IN  IF special = {} THEN cps
        ELSE LET j == First(special)
             IN  SubSeq(cps, 1, j - 1) \o <<92, cps[j]>>
                 \o EscapeStr(SubSeq(cps, j + 1, Len(cps)))

RECURSIVE Serializable(_)
Serializable(v) ==
    /\ v.t # "bytes"
    /\ \A i \in 1..Len(v.o) : Serializable(v.o[i].v)

RECURSIVE json_dumps(_), DumpItems(_, _, _)
json_dumps(v) ==
    CASE v.t = "None" -> <<110, 117, 108, 108>>
      [] v.t = "bool" -> IF v.n = 1 THEN <<116, 114, 117, 101>>
                         ELSE <<102, 97, 108, 115, 101>>
      [] v.t = "int" -> IF v.n < 0 THEN <<45>> \o Digits(0 - v.n) ELSE Digits(v.n)
      [] v.t = "str" -> <<34>> \o EscapeStr(v.s) \o <<34>>
      [] v.t = "dict" -> <<123>> \o DumpItems(v.o, 1, TRUE) \o <<125>>
      [] OTHER -> <<91>> \o DumpItems(v.o, 1, FALSE) \o <<93>>

DumpItems(items, i, keyed) ==
    IF i > Len(items) THEN <<>>
    ELSE (IF i > 1 THEN <<44, 32>> ELSE <<>>)
         \o (IF keyed THEN <<34>> \o EscapeStr(items[i].k) \o <<34, 58, 32>>
             ELSE <<>>)
         \o json_dumps(items[i].v)
         \o DumpItems(items, i + 1, keyed)

(***************************************************************************)
(* json.load: the scanner of the json module on a text t (code points),    *)
(* for null, true, false, integers, strings with the escapes \" \\ \/,     *)
(* objects and arrays.  A result is [ok, v, i]: the value and the position *)
(* after it, ok = FALSE for a JSONDecodeError.                             *)
(***************************************************************************)
ScanFail == [ok |-> FALSE, v |-> PyNone, i |-> 0]
ScanOk(val, next) == [ok |-> TRUE, v |-> val, i |-> next]

RECURSIVE SkipWs(_, _)
SkipWs(t, i) ==
    IF i <= Len(t) /\ t[i] \in {32, 9, 10, 13} THEN SkipWs(t, i + 1) ELSE i

IsDigit(t, i) == i <= Len(t) /\ t[i] >= 48 /\ t[i] <= 57

Literal(t, i, word) ==
    /\ i + Len(word) - 1 <= Len(t)
    /\ SubSeq(t, i, i + Len(word) - 1) = word

\* i is the position after the opening quote; the characters up to the next
\* quote, backslash or control character are taken in one step.
RECURSIVE py_scanstring(_, _, _)
py_scanstring(t, i, acc) ==
    LET special == {j \in i..Len(t) : t[j] \in {34, 92} \/ t[j] < 32}
    IN  IF special = {} THEN ScanFail
        ELSE LET j == First(special)
                 run == acc \o SubSeq(t, i, j - 1)
             IN  IF t[j] = 34 THEN ScanOk(PyStr(run), j + 1)
                 ELSE IF t[j] = 92 /\ j + 1 <= Len(t) /\ t[j + 1] \in {34, 92, 47}
                 THEN py_scanstring(t, j + 2, Append(run, t[j + 1]))
                 ELSE ScanFail

\* -?(0|[1-9][0-9]*) at position i.
RECURSIVE ScanDigits(_, _, _)
ScanDigits(t, i, acc) ==
    IF IsDigit(t, i) THEN ScanDigits(t, i + 1, acc * 10 + (t[i] - 48))
    ELSE [n |-> acc, i |-> i]

match_number(t, i) ==
    LET neg == i <= Len(t) /\ t[i] = 45
        j == IF neg THEN i + 1 ELSE i
    IN  IF ~IsDigit(t, j) THEN ScanFail
        ELSE IF t[j] = 48 THEN ScanOk(PyInt(0), j + 1)
        ELSE LET d == ScanDigits(t, j, 0)
             IN  ScanOk(PyInt(IF neg THEN 0 - d.n ELSE d.n), d.i)

RECURSIVE scan_once(_, _), JSONObject(_, _), ObjectPairs(_, _, _),
          PairKey(_, _, _), PairColon(_, _, _, _), PairValue(_, _, _, _),
          PairEnd(_, _, _), NextPair(_, _, _),
          JSONArray(_, _), ArrayItems(_, _, _), ItemValue(_, _, _),
          ItemEnd(_, _, _)
scan_once(t, i) ==
    IF i > Len(t) THEN ScanFail
    ELSE IF t[i] = 34 THEN py_scanstring(t, i + 1, <<>>)
    ELSE IF t[i] = 123 THEN JSONObject(t, i + 1)
    ELSE IF t[i] = 91 THEN JSONArray(t, i + 1)
    ELSE IF Literal(t, i, <<110, 117, 108, 108>>) THEN ScanOk(PyNone, i + 4)
    ELSE IF Literal(t, i, <<116, 114, 117, 101>>) THEN ScanOk(PyBool(TRUE), i + 4)
    ELSE IF Literal(t, i, <<102, 97, 108, 115, 101>>)
    THEN ScanOk(PyBool(FALSE), i + 5)
    ELSE match_number(t, i)

\* i is the position after the opening brace.
JSONObject(t, i) ==
    LET j == SkipWs(t, i)
    IN  IF j > Len(t) THEN ScanFail
        ELSE IF t[j] = 125 THEN ScanOk(PyDict(<<>>), j + 1)
        ELSE IF t[j] # 34 THEN ScanFail
        ELSE ObjectPairs(t, j + 1, <<>>)

\* i is the position after the opening quote of a key.  The steps of one
\* pair: the key, the colon at c, the value, and at e the closing brace or
\* the comma before the next key at q.
ObjectPairs(t, i, acc) == PairKey(t, py_scanstring(t, i, <<>>), acc)

PairKey(t, key, acc) ==
    IF ~key.ok THEN ScanFail
    ELSE PairColon(t, key, SkipWs(t, key.i), acc)

PairColon(t, key, c, acc) ==
    IF c > Len(t) \/ t[c] # 58 THEN ScanFail
    ELSE PairValue(t, key, scan_once(t, SkipWs(t, c + 1)), acc)

PairValue(t, key, val, acc) ==
    IF ~val.ok THEN ScanFail
    ELSE PairEnd(t, DictSet(acc, key.v.s, val.v), SkipWs(t, val.i))

PairEnd(t, acc, e) ==
    IF e > Len(t) THEN ScanFail
    ELSE IF t[e] = 125 THEN ScanOk(PyDict(acc), e + 1)
    ELSE IF t[e] # 44 THEN ScanFail
    ELSE NextPair(t, acc, SkipWs(t, e + 1))

NextPair(t, acc, q) ==
    IF q > Len(t) \/ t[q] # 34 THEN ScanFail
    ELSE ObjectPairs(t, q + 1, acc)

\* i is the position after the opening bracket.
JSONArray(t, i) ==
    LET j == SkipWs(t, i)
    IN  IF j > Len(t) THEN ScanFail
        ELSE IF t[j] = 93 THEN ScanOk(PyList(<<>>), j + 1)
        ELSE ArrayItems(t, j, <<>>)

\* The steps of one item: the value, and at e the closing bracket or the
\* comma before the next item.
ArrayItems(t, i, acc) == ItemValue(t, scan_once(t, i), acc)

ItemValue(t, val, acc) ==
    IF ~val.ok THEN ScanFail
    ELSE ItemEnd(t, Append(acc, [k |-> <<>>, v |-> val.v]), SkipWs(t, val.i))

ItemEnd(t, acc, e) ==
    IF e > Len(t) THEN ScanFail
    ELSE IF t[e] = 93 THEN ScanOk(PyList(acc), e + 1)
    ELSE IF t[e] # 44 THEN ScanFail
    ELSE ArrayItems(t, SkipWs(t, e + 1), acc)

\* json.loads(text): one value between optional whitespace, nothing after it.
OnlyValue(t, r) ==
    IF r.ok /\ SkipWs(t, r.i) = Len(t) + 1 THEN r ELSE ScanFail

json_loads(t) == OnlyValue(t, scan_once(t, SkipWs(t, 1)))

(***************************************************************************)
(* Server._json_encode, Server._json_decode.  encoding is a Python value;  *)
(* the codec modelled is "utf-8" (also the default that encoding=None      *)
(* selects), any other str is an unknown codec.                            *)
(***************************************************************************)
Ret(e, val) == [exc |-> e, v |-> val]

_json_encode(obj, encoding) ==
    IF ~Serializable(obj) THEN Ret("TypeError", PyNone)
    ELSE IF encoding.t # "str" THEN Ret("TypeError", PyNone)
    ELSE IF encoding.s # E_utf_8 THEN Ret("LookupError", PyNone)
    ELSE Ret(NoExc, PyBytes(utf8_encode(json_dumps(obj))))

\* json.load(tiow) on what the wrapper decoded, text = [ok, v], and on the
\* scanner's result r.
Loaded(r) == IF r.ok THEN Ret(NoExc, r.v) ELSE Ret("JSONDecodeError", PyNone)

json_load(text) ==
    IF ~text.ok THEN Ret("UnicodeDecodeError", PyNone)
    ELSE Loaded(json_loads(text.v))

_json_decode(json_bytes, encoding) ==
    IF encoding.t \notin {"str", "None"} THEN Ret("TypeError", PyNone)
    ELSE IF encoding.t = "str" /\ encoding.s # E_utf_8
    THEN Ret("LookupError", PyNone)
    ELSE json_load(utf8_decode(json_bytes, 1, <<>>))

(***************************************************************************)
(* `key in v` and v[key] on a Python value, each [exc, v].                 *)
(***************************************************************************)
IsSubstring(key, text) ==
    \E i \in 1..(Len(text) - Len(key) + 1) :
        SubSeq(text, i, i + Len(key) - 1) = key

PyIn(key, v) ==
    CASE v.t = "dict" -> Ret(NoExc, HasKey(v, key))
      [] v.t = "list" -> Ret(NoExc, \E i \in 1..Len(v.o) : v.o[i].v = PyStr(key))
      [] v.t = "str" -> Ret(NoExc, key = <<>> \/ IsSubstring(key, v.s))
      [] OTHER -> Ret("TypeError", FALSE)

PyGetItem(v, key) ==
    IF v.t # "dict" THEN Ret("TypeError", PyNone)
    ELSE IF ~HasKey(v, key) THEN Ret("KeyError", PyNone)
    ELSE Ret(NoExc, GetItem(v, key))

\* buf[:n]
SliceTo(buf, n) ==
    IF n >= 0 THEN SubSeq(buf, 1, IF n < Len(buf) THEN n ELSE Len(buf))
    ELSE SubSeq(buf, 1, IF Len(buf) + n > 0 THEN Len(buf) + n ELSE 0)

\* buf[n:]
SliceFrom(buf, n) == SubSeq(buf, (IF n < Len(buf) THEN n ELSE Len(buf)) + 1, Len(buf))

(***************************************************************************)
(* struct.pack(">H", n) and struct.unpack(">H", b)[0]                      *)
(***************************************************************************)
pack_H(n) ==
    IF n < 0 \/ n > 65535 THEN Ret("struct.error", <<>>)
    ELSE Ret(NoExc, <<n \div 256, n % 256>>)

unpack_H(b) == 256 * b[1] + b[2]

(***************************************************************************)
(* The state: the fields of one Server object, and what its methods reach  *)
(* outside it.                                                             *)
(***************************************************************************)
VARIABLES
    recv_buffer,       \* self._recv_buffer
    send_buffer,       \* self._send_buffer
    jsonheader_len,    \* self._jsonheader_len: PyNone or PyInt
    jsonheader,        \* self.jsonheader: PyNone or the decoded header
    request,           \* self.request: PyNone or the payload
    response_created,  \* self.response_created
    sock,              \* self.sock: "socket", or "None" once close() ran
    events,            \* the selector's registration of sock: "r", "w", "rw",
                       \* or "unregistered"
    sys_byteorder,     \* sys.byteorder of the platform
    plan,              \* the index in Plans of what the peer sends
    wire,              \* the bytes of the plan the peer has still to send
    eof,               \* the peer has closed its end
    out,               \* the bytes the socket has accepted from send()
    exc,               \* what the last handler call raised (NoExc: it returned)
    calls,             \* the socket and selector calls the last handler made
    event,             \* the last handler called
    closes             \* how many times _write() has called close()

vars == <<recv_buffer, send_buffer, jsonheader_len, jsonheader, request,
          response_created, sock, events, sys_byteorder, plan, wire, eof, out,
          exc, calls, event, closes>>

\* recv(4096)
RecvSize == 4096

\* The object and its surroundings as one record, which the methods take and
\* return.  A method that draws on the socket or selector returns the set of
\* its possible results.
Self ==
    [recv_buffer |-> recv_buffer, send_buffer |-> send_buffer,
     jsonheader_len |-> jsonheader_len, jsonheader |-> jsonheader,
     request |-> request, response_created |-> response_created,
     sock |-> sock, events |-> events, byteorder |-> sys_byteorder,
     wire |-> wire, eof |-> eof, out |-> out, exc |-> exc, calls |-> calls]

Raise(self, e) == [self EXCEPT !.exc = e]
Call(self, c) == [self EXCEPT !.calls = Append(@, c)]

(***************************************************************************)
(* Server.__init__                                                         *)
(***************************************************************************)
\* The connection is registered with the selector for both events.
__init__(byteorder, stream) ==
    [recv_buffer |-> <<>>, send_buffer |-> <<>>,
     jsonheader_len |-> PyNone, jsonheader |-> PyNone,
     request |-> PyNone, response_created |-> FALSE,
     sock |-> "socket", events |-> "rw", byteorder |-> byteorder,
     wire |-> stream, eof |-> FALSE, out |-> <<>>, exc |-> NoExc,
     calls |-> <<>>]

(***************************************************************************)
(* Server._set_selector_events_mask                                        *)
(***************************************************************************)
_set_selector_events_mask(self, mode) ==
    IF mode \notin {"r", "w", "rw"} THEN Raise(self, "ValueError")
    ELSE IF self.events = "unregistered"
    THEN Raise(Call(self, "selector.modify:raised"), "KeyError")
    ELSE [Call(self, "selector.modify") EXCEPT !.events = mode]

(***************************************************************************)
(* Server._read: one recv().  It raises BlockingIOError (nothing to read), *)
(* returns up to RecvSize of the bytes the peer sends, or returns b"" when *)
(* the peer has closed.                                                    *)
(***************************************************************************)
\* _read taking the empty result of recv for "nothing to read yet".
_read_empty_is_would_block(self) ==
    IF self.sock = "None" THEN {Raise(self, "AttributeError")}
    ELSE LET s == Call(self, "sock.recv")
             most == IF Len(s.wire) < RecvSize THEN Len(s.wire) ELSE RecvSize
         IN  IF s.eof THEN {s}
             ELSE {s}
                  \cup {[s EXCEPT !.recv_buffer = @ \o SubSeq(s.wire, 1, n),
                                  !.wire = SliceFrom(@, n)] : n \in 1..most}
                  \cup {[s EXCEPT !.eof = TRUE]}

_read(self) ==
    IF self.sock = "None" THEN {Raise(self, "AttributeError")}
    ELSE LET s == Call(self, "sock.recv")
             most == IF Len(s.wire) < RecvSize THEN Len(s.wire) ELSE RecvSize
         IN  IF s.eof THEN {Raise(s, "RuntimeError")}
             ELSE {s}
                  \cup {[s EXCEPT !.recv_buffer = @ \o SubSeq(s.wire, 1, n),
                                  !.wire = SliceFrom(@, n)] : n \in 1..most}
                  \cup {Raise([s EXCEPT !.eof = TRUE], "RuntimeError")}

(***************************************************************************)
(* Server.close                                                            *)
(***************************************************************************)
\* close without the try around unregister: its failure propagates.
close_unregister_propagates(self) ==
    IF self.sock = "None"
    THEN {Raise(Call(self, "selector.unregister:raised"), "ValueError")}
    ELSE {Raise(Call(self, "selector.unregister:raised"), "KeyError")}
         \cup {[Call(Call(self, "selector.unregister"), c) EXCEPT
                   !.sock = "None", !.events = "unregistered"]
               : c \in {"sock.close", "sock.close:raised"}}

close(self) ==
    IF self.sock = "None"
    THEN \* unregister(None) raises and is caught; None.close() raises
         \* AttributeError, which `except OSError` lets through
         {Raise(Call(self, "selector.unregister:raised"), "AttributeError")}
    ELSE {[Call(Call(self, u), c) EXCEPT
              !.sock = "None",
              !.events = IF u = "selector.unregister" THEN "unregistered" ELSE @]
          : u \in {"selector.unregister", "selector.unregister:raised"},
            c \in {"sock.close", "sock.close:raised"}}

(***************************************************************************)
(* Server._write: one send() of the whole send buffer, of which the socket *)
(* takes a prefix, or raises BlockingIOError.                              *)
(***************************************************************************)
\* _write with the drained test outside `if self._send_buffer:`: it closes
\* whenever the send buffer is empty.
_write_close_when_empty(self) ==
    IF self.send_buffer = <<>> THEN close(Call(self, "self.close"))
    ELSE IF self.sock = "None" THEN {Raise(self, "AttributeError")}
    ELSE LET s == Call(self, "sock.send")
             Sent(sent) ==
                 LET s1 == [s EXCEPT !.send_buffer = SliceFrom(@, sent),
                                     !.out = @ \o SliceTo(s.send_buffer, sent)]
                 IN  IF s1.send_buffer = <<>>
                     THEN close(Call(s1, "self.close"))
                     ELSE {s1}
         IN  {s} \cup UNION {Sent(sent) : sent \in 1..Len(s.send_buffer)}

\* _write closing after any send that took bytes.
_write_close_after_any_send(self) ==
    IF self.send_buffer = <<>> THEN {self}
    ELSE IF self.sock = "None" THEN {Raise(self, "AttributeError")}
    ELSE LET s == Call(self, "sock.send")
             Sent(sent) ==
                 LET s1 == [s EXCEPT !.send_buffer = SliceFrom(@, sent),
                                     !.out = @ \o SliceTo(s.send_buffer, sent)]
                 IN  IF sent # 0
                     THEN close(Call(s1, "self.close"))
                     ELSE {s1}
         IN  {s} \cup UNION {Sent(sent) : sent \in 1..Len(s.send_buffer)}

_write(self) ==
    IF self.send_buffer = <<>> THEN {self}
    ELSE IF self.sock = "None" THEN {Raise(self, "AttributeError")}
    ELSE LET s == Call(self, "sock.send")
             Sent(sent) ==
                 LET s1 == [s EXCEPT !.send_buffer = SliceFrom(@, sent),
                                     !.out = @ \o SliceTo(s.send_buffer, sent)]
                 IN  IF sent # 0 /\ s1.send_buffer = <<>>
                     THEN close(Call(s1, "self.close"))
                     ELSE {s1}
         IN  {s} \cup UNION {Sent(sent) : sent \in 1..Len(s.send_buffer)}

(***************************************************************************)
(* Server._create_message on the keywords of response, with sys.byteorder  *)
(***************************************************************************)
\* The header dict of l.86-91.
MessageHeader(byteorder, response) ==
    PyDict(<<[k |-> K_byteorder, v |-> PyStr(byteorder)],
             [k |-> K_content_type, v |-> response.content_type],
             [k |-> K_content_encoding, v |-> response.content_encoding],
             [k |-> K_content_length,
              v |-> PyInt(Len(response.content_bytes.s))]>>)

\* l.93-94 with the length prefix packed "<H".
Message_little_endian(jsonheader_bytes, content_bytes) ==
    LET n == Len(jsonheader_bytes.v.s)
    IN  IF jsonheader_bytes.exc # NoExc THEN Ret(jsonheader_bytes.exc, <<>>)
        ELSE Ret(NoExc, <<n % 256, n \div 256>> \o jsonheader_bytes.v.s
                        \o content_bytes.s)

\* _create_message with the length prefix packed "<H".
_create_message_little_endian(byteorder, response) ==
    IF response.content_bytes.t # "bytes" THEN Ret("TypeError", <<>>)
    ELSE Message_little_endian(
             _json_encode(MessageHeader(byteorder, response), PyStr(E_utf_8)),
             response.content_bytes)

\* l.93-94: the prefix, the header bytes and the content.
Message(jsonheader_bytes, content_bytes) ==
    IF jsonheader_bytes.exc # NoExc THEN Ret(jsonheader_bytes.exc, <<>>)
    ELSE LET message_hdr == pack_H(Len(jsonheader_bytes.v.s))
         IN  IF message_hdr.exc # NoExc THEN Ret(message_hdr.exc, <<>>)
             ELSE Ret(NoExc, message_hdr.v \o jsonheader_bytes.v.s
                             \o content_bytes.s)

_create_message(byteorder, response) ==
    IF response.content_bytes.t # "bytes" THEN Ret("TypeError", <<>>)
    ELSE Message(_json_encode(MessageHeader(byteorder, response),
                              PyStr(E_utf_8)),
                 response.content_bytes)

(***************************************************************************)
(* Server._create_response_json_content, _create_empty_response_content    *)
(***************************************************************************)
_create_response_json_content ==
    LET content == PyDict(<<[k |-> K_result, v |-> PyInt(1)]>>)
    IN  [content_bytes |-> _json_encode(content, PyStr(E_utf_8)).v,
         content_type |-> PyStr(T_text_json),
         content_encoding |-> PyStr(E_utf_8)]

_create_empty_response_content ==
    [content_bytes |-> PyNone,
     content_type |-> PyNone,
     content_encoding |-> PyStr(E_binary)]

(***************************************************************************)
(* Server.create_response                                                  *)
(***************************************************************************)
\* l.245-247 for the result of _create_message.
QueueMessage(self, message) ==
    IF message.exc # NoExc THEN Raise(self, message.exc)
    ELSE [self EXCEPT !.response_created = TRUE,
                      !.send_buffer = @ \o message.v]

create_response(self) ==
    LET ct == PyGetItem(self.jsonheader, K_content_type)
    IN  IF ct.exc # NoExc THEN Raise(self, ct.exc)
        ELSE QueueMessage(self,
                 _create_message(self.byteorder,
                                 IF ct.v = PyStr(T_text_json)
                                 THEN _create_response_json_content
                                 ELSE _create_empty_response_content))

(***************************************************************************)
(* Server.process_protoheader                                              *)
(***************************************************************************)
\* process_protoheader reading the two bytes low byte first.
process_protoheader_low_byte_first(self) ==
    LET hdrlen == 2
    IN  IF Len(self.recv_buffer) >= hdrlen
        THEN [self EXCEPT
                 !.jsonheader_len = PyInt(self.recv_buffer[1]
                                          + 256 * self.recv_buffer[2]),
                 !.recv_buffer = SliceFrom(@, hdrlen)]
        ELSE self

process_protoheader(self) ==
    LET hdrlen == 2
    IN  IF Len(self.recv_buffer) >= hdrlen
        THEN [self EXCEPT
                 !.jsonheader_len = PyInt(unpack_H(SliceTo(self.recv_buffer, hdrlen))),
                 !.recv_buffer = SliceFrom(@, hdrlen)]
        ELSE self

(***************************************************************************)
(* Server.process_jsonheader: the header is assigned and the buffer        *)
(* advanced before the required keys are looked for.                       *)
(***************************************************************************)
RequiredHeaders ==
    <<K_byteorder, K_content_length, K_content_type, K_content_encoding>>

RECURSIVE CheckRequired(_, _)
CheckRequired(self, i) ==
    IF i > Len(RequiredHeaders) THEN self
    ELSE LET has == PyIn(RequiredHeaders[i], self.jsonheader)
         IN  IF has.exc # NoExc THEN Raise(self, has.exc)
             ELSE IF ~has.v THEN Raise(self, "ValueError")
             ELSE CheckRequired(self, i + 1)

\* l.200-211 for the result d of _json_decode.
SetJsonheader(self, hdrlen, d) ==
    IF d.exc # NoExc THEN Raise(self, d.exc)
    ELSE CheckRequired([self EXCEPT !.jsonheader = d.v,
                                    !.recv_buffer = SliceFrom(@, hdrlen)], 1)

process_jsonheader(self) ==
    LET hdrlen == self.jsonheader_len.n
    IN  IF Len(self.recv_buffer) >= hdrlen
        THEN SetJsonheader(self, hdrlen,
                           _json_decode(SliceTo(self.recv_buffer, hdrlen),
                                        PyStr(E_utf_8)))
        ELSE self

(***************************************************************************)
(* Server.process_request: the content is read from the head of the        *)
(* receive buffer, which is left as it is.                                 *)
(***************************************************************************)
\* l.223 for the result d of _json_decode.
SetRequest(self, d) ==
    IF d.exc # NoExc THEN Raise(self, d.exc)
    ELSE [self EXCEPT !.request = d.v]

\* process_request taking the whole receive buffer as the content.
process_request_whole_buffer(self) ==
    LET content_len == PyGetItem(self.jsonheader, K_content_length)
    IN  IF content_len.exc # NoExc THEN Raise(self, content_len.exc)
        ELSE IF content_len.v.t \notin {"int", "bool"}
        THEN Raise(self, "TypeError")
        ELSE IF ~(Len(self.recv_buffer) >= content_len.v.n) THEN self
        ELSE LET data == self.recv_buffer
                 ct == PyGetItem(self.jsonheader, K_content_type)
             IN  IF ct.exc # NoExc THEN Raise(self, ct.exc)
                 ELSE IF ct.v = PyStr(T_text_json)
                 THEN LET encoding == PyGetItem(self.jsonheader,
                                                K_content_encoding)
                      IN  IF encoding.exc # NoExc
                          THEN Raise(self, encoding.exc)
                          ELSE SetRequest(self,
                                          _json_decode(data, encoding.v))
                 ELSE _set_selector_events_mask(
                          [self EXCEPT !.request = PyBytes(data)], "w")

\* process_request ending the reading after a text/json payload as well.
SetRequestWriteOnly(self, d) ==
    IF d.exc # NoExc THEN Raise(self, d.exc)
    ELSE _set_selector_events_mask([self EXCEPT !.request = d.v], "w")

process_request_always_write_only(self) ==
    LET content_len == PyGetItem(self.jsonheader, K_content_length)
    IN  IF content_len.exc # NoExc THEN Raise(self, content_len.exc)
        ELSE IF content_len.v.t \notin {"int", "bool"}
        THEN Raise(self, "TypeError")
        ELSE IF ~(Len(self.recv_buffer) >= content_len.v.n) THEN self
        ELSE LET data == SliceTo(self.recv_buffer, content_len.v.n)
                 ct == PyGetItem(self.jsonheader, K_content_type)
             IN  IF ct.exc # NoExc THEN Raise(self, ct.exc)
                 ELSE IF ct.v = PyStr(T_text_json)
                 THEN LET encoding == PyGetItem(self.jsonheader,
                                                K_content_encoding)
                      IN  IF encoding.exc # NoExc
                          THEN Raise(self, encoding.exc)
                          ELSE SetRequestWriteOnly(self,
                                          _json_decode(data, encoding.v))
                 ELSE _set_selector_events_mask(
                          [self EXCEPT !.request = PyBytes(data)], "w")

process_request(self) ==
    LET content_len == PyGetItem(self.jsonheader, K_content_length)
    IN  IF content_len.exc # NoExc THEN Raise(self, content_len.exc)
        ELSE IF content_len.v.t \notin {"int", "bool"}
        THEN Raise(self, "TypeError")
        ELSE IF ~(Len(self.recv_buffer) >= content_len.v.n) THEN self
        ELSE LET data == SliceTo(self.recv_buffer, content_len.v.n)
                 ct == PyGetItem(self.jsonheader, K_content_type)
             IN  IF ct.exc # NoExc THEN Raise(self, ct.exc)
                 ELSE IF ct.v = PyStr(T_text_json)
                 THEN LET encoding == PyGetItem(self.jsonheader,
                                                K_content_encoding)
                      IN  IF encoding.exc # NoExc
                          THEN Raise(self, encoding.exc)
                          ELSE SetRequest(self,
                                          _json_decode(data, encoding.v))
                 ELSE _set_selector_events_mask(
                          [self EXCEPT !.request = PyBytes(data)], "w")

(***************************************************************************)
(* Server.read, Server.write, Server.process_events                        *)
(***************************************************************************)
\* read with the stages chained by elif: one stage a call.
read_one_stage(self) ==
    LET Stage(s) ==
            IF s.exc # NoExc THEN s
            ELSE IF s.jsonheader_len = PyNone THEN process_protoheader(s)
            ELSE IF s.jsonheader = PyNone THEN process_jsonheader(s)
            ELSE IF Truthy(s.jsonheader) /\ s.request = PyNone
            THEN process_request(s)
            ELSE s
    IN  {Stage(s) : s \in _read(self)}

\* read() taking a header length from the buffer on every call.
read_protoheader_every_time(self) ==
    LET Protoheader(s) ==
            IF s.exc = NoExc THEN process_protoheader(s) ELSE s
        Jsonheader(s) ==
            IF s.exc = NoExc /\ s.jsonheader_len # PyNone /\ s.jsonheader = PyNone
            THEN process_jsonheader(s) ELSE s
        Request(s) ==
            IF s.exc = NoExc /\ Truthy(s.jsonheader) /\ s.request = PyNone
            THEN process_request(s) ELSE s
        afterRead == _read(self)
        afterProtoheader == {Protoheader(s) : s \in afterRead}
        afterJsonheader == {Jsonheader(s) : s \in afterProtoheader}
    IN  {Request(s) : s \in afterJsonheader}

read(self) ==
    LET Protoheader(s) ==
            IF s.exc = NoExc /\ s.jsonheader_len = PyNone
            THEN process_protoheader(s) ELSE s
        Jsonheader(s) ==
            IF s.exc = NoExc /\ s.jsonheader_len # PyNone /\ s.jsonheader = PyNone
            THEN process_jsonheader(s) ELSE s
        Request(s) ==
            IF s.exc = NoExc /\ Truthy(s.jsonheader) /\ s.request = PyNone
            THEN process_request(s) ELSE s
        afterRead == _read(self)
        afterProtoheader == {Protoheader(s) : s \in afterRead}
        afterJsonheader == {Jsonheader(s) : s \in afterProtoheader}
    IN  {Request(s) : s \in afterJsonheader}

write(self) ==
    LET afterResponse == {IF Truthy(self.request) /\ ~self.response_created
                          THEN create_response(self) ELSE self}
    IN  UNION {IF s.exc # NoExc THEN {s} ELSE _write(s) : s \in afterResponse}

\* process_events calling write() before read().
process_events_write_first(self, mask) ==
    LET afterWrite == IF "EVENT_WRITE" \in mask THEN write(self) ELSE {self}
    IN  UNION {IF s.exc = NoExc /\ "EVENT_READ" \in mask THEN read(s) ELSE {s}
               : s \in afterWrite}

process_events(self, mask) ==
    LET afterRead == IF "EVENT_READ" \in mask THEN read(self) ELSE {self}
    IN  UNION {IF s.exc = NoExc /\ "EVENT_WRITE" \in mask THEN write(s) ELSE {s}
               : s \in afterRead}

(***************************************************************************)
(* What the peer sends.  A plan is the byte stream and how it was made:    *)
(*   "built"    a message of _create_message for content C (the encoding   *)
(*              of the value v when it is JSON), type T and encoding E;    *)
(*   "framed"   a framed message whose header is not what the builder      *)
(*              makes (a required key missing, an empty object, written    *)
(*              without spaces);                                           *)
(*   "trailing" a built message followed by the first bytes of another;    *)
(*   "raw"      bytes that are no message.                                 *)
(***************************************************************************)
Response(C, T, E) ==
    [content_bytes |-> PyBytes(C), content_type |-> T, content_encoding |-> E]

Built(byteorder, v, T, E) ==
    LET C == IF v.t = "bytes" THEN v.s ELSE _json_encode(v, PyStr(E_utf_8)).v.s
    IN  [kind |-> "built", C |-> C, T |-> T, E |-> E, v |-> v,
         bytes |-> _create_message(byteorder, Response(C, T, E)).v]

\* A header object and content, framed as the wire format says.
Framed(hdr, C) ==
    LET h == _json_encode(hdr, PyStr(E_utf_8)).v.s
    IN  [kind |-> "framed", C |-> C, T |-> PyNone, E |-> PyNone, v |-> hdr,
         bytes |-> pack_H(Len(h)).v \o h \o C]

Raw(bs) ==
    [kind |-> "raw", C |-> <<>>, T |-> PyNone, E |-> PyNone, v |-> PyNone,
     bytes |-> bs]

Trailing(p, more) == [p EXCEPT !.kind = "trailing", !.bytes = @ \o more]

\* The header of a "text/plain" message of n content bytes, without key.
HeaderWithout(key, T, n) ==
    LET all == <<[k |-> K_byteorder, v |-> PyStr(B_big)],
                 [k |-> K_content_type, v |-> T],
                 [k |-> K_content_encoding, v |-> PyStr(E_utf_8)],
                 [k |-> K_content_length, v |-> PyInt(n)]>>
    IN  PyDict(SelectSeq(all, LAMBDA item : item.k # key))

CmdStatus == PyDict(<<[k |-> K_cmd, v |-> PyStr(V_status)]>>)
CmdStatusBytes == _json_encode(CmdStatus, PyStr(E_utf_8)).v.s

\* {"byteorder":"little","content-type":"text/json","content-encoding":"utf-8",
\*  "content-length":16} and {"cmd":"status"}, written without spaces.
CompactMessage ==
    <<
        0, 96, 123, 34, 98, 121, 116, 101, 111, 114, 100, 101, 114, 34, 58,
        34, 108, 105, 116, 116, 108, 101, 34, 44, 34, 99, 111, 110, 116,
        101, 110, 116, 45, 116, 121, 112, 101, 34, 58, 34, 116, 101, 120,
        116, 47, 106, 115, 111, 110, 34, 44, 34, 99, 111, 110, 116, 101,
        110, 116, 45, 101, 110, 99, 111, 100, 105, 110, 103, 34, 58, 34,
        117, 116, 102, 45, 56, 34, 44, 34, 99, 111, 110, 116, 101, 110,
        116, 45, 108, 101, 110, 103, 116, 104, 34, 58, 49, 54, 125, 123,
        34, 99, 109, 100, 34, 58, 34, 115, 116, 97, 116, 117, 115, 34, 125
    >>

\* How many bytes of a following message a "trailing" plan carries.
MaxTrailing == 3

\* The start of a second message.
NextMessage == Built(B_big, PyInt(2), PyStr(T_text_json), PyStr(E_utf_8)).bytes

Plans ==
    <<Built(B_little, CmdStatus, PyStr(T_text_json), PyStr(E_utf_8)),
      Built(B_big, PyDict(<<>>), PyStr(T_text_json), PyStr(E_utf_8)),
      Built(B_big, PyNone, PyStr(T_text_json), PyStr(E_utf_8)),
      Built(B_big, PyDict(<<>>), PyStr(T_text_json), PyStr(E_binary)),
      Built(B_big, PyBytes(<<123, 34>>), PyStr(T_text_json), PyStr(E_utf_8)),
      Built(B_little, PyBytes(<<0, 255, 10>>), PyStr(T_text_plain),
            PyStr(E_binary)),
      Built(B_big, PyBytes(<<>>), PyStr(T_text_plain), PyStr(E_binary)),
      Built(B_big, PyBytes(<<195, 169>>), PyStr(<<233>>), PyStr(E_utf_8)),
      Framed(HeaderWithout(K_byteorder, PyStr(T_text_json), Len(CmdStatusBytes)),
             CmdStatusBytes),
      Framed(HeaderWithout(K_content_type, PyStr(T_text_plain), 2), <<7, 8>>),
      Framed(HeaderWithout(K_content_encoding, PyStr(T_text_plain), 2),
             <<7, 8>>),
      Framed(HeaderWithout(K_content_length, PyStr(T_text_plain), 2), <<7, 8>>),
      Framed(PyDict(<<>>), <<7, 8>>),
      [Raw(CompactMessage) EXCEPT !.kind = "framed"],
      Trailing(Built(B_big, PyInt(1), PyStr(T_text_json), PyStr(E_utf_8)),
               SliceTo(NextMessage, MaxTrailing)),
      Trailing(Built(B_big, PyBytes(<<9>>), PyStr(T_text_plain), PyStr(E_binary)),
               SliceTo(NextMessage, MaxTrailing)),
      Raw(<<0, 1, 120, 121>>),
      Raw(<<0, 0, 123, 125>>),
      Raw(<<1, 2, 3>>)>>

(***************************************************************************)
(* The specification: a connection is made, and its handlers are called in *)
(* any order, any number of times.                                         *)
(***************************************************************************)
Install(s) ==
    /\ recv_buffer' = s.recv_buffer
    /\ send_buffer' = s.send_buffer
    /\ jsonheader_len' = s.jsonheader_len
    /\ jsonheader' = s.jsonheader
    /\ request' = s.request
    /\ response_created' = s.response_created
    /\ sock' = s.sock
    /\ events' = s.events
    /\ wire' = s.wire
    /\ eof' = s.eof
    /\ out' = s.out
    /\ exc' = s.exc
    /\ calls' = s.calls

\* The object s just constructed, for the peer's plan p.
Constructed(s, p) ==
    /\ recv_buffer = s.recv_buffer
    /\ send_buffer = s.send_buffer
    /\ jsonheader_len = s.jsonheader_len
    /\ jsonheader = s.jsonheader
    /\ request = s.request
    /\ response_created = s.response_created
    /\ sock = s.sock
    /\ events = s.events
    /\ sys_byteorder = s.byteorder
    /\ plan = p
    /\ wire = s.wire
    /\ eof = s.eof
    /\ out = s.out
    /\ exc = s.exc
    /\ calls = s.calls
    /\ event = "__init__"
    /\ closes = 0

Init ==
    \E p \in 1..Len(Plans), byteorder \in {B_little, B_big} :
        Constructed(__init__(byteorder, Plans[p].bytes), p)

\* A handler starts with nothing raised and no call made.
Begin == [Self EXCEPT !.exc = NoExc, !.calls = <<>>]

SelfCloses(s) == Cardinality({i \in 1..Len(s.calls) : s.calls[i] = "self.close"})

Finish(s, handler) ==
    /\ Install(s)
    /\ event' = handler
    /\ closes' = closes + SelfCloses(s)
    /\ UNCHANGED <<sys_byteorder, plan>>

Read == \E s \in read(Begin) : Finish(s, "read")

Write == \E s \in write(Begin) : Finish(s, "write")

\* process_events with one event in the mask is the call Read or Write makes;
\* the action is the call with both.
ProcessEvents ==
    \E s \in process_events(Begin, {"EVENT_READ", "EVENT_WRITE"}) :
        Finish(s, "process_events")

Close == \E s \in close(Begin) : Finish(s, "close")

Next == Read \/ Write \/ ProcessEvents \/ Close

Spec == Init /\ [][Next]_vars

(***************************************************************************)
(* The same connection when the only calls are read(), each receiving a    *)
(* chunk of the peer's bytes and none the whole stream: the stream in any  *)
(* split into two or more chunks.                                          *)
(***************************************************************************)
Feed ==
    \E s \in read(Begin) :
        /\ Len(s.wire) < Len(wire)
        /\ Len(wire) - Len(s.wire) < Len(Plans[plan].bytes)
        /\ Finish(s, "read")

FeedSpec == Init /\ [][Feed]_vars

(***************************************************************************)
(* Wire messages                                                           *)
(***************************************************************************)
\* A valid wire message: the 2-byte length prefix, a header object holding the
\* four required keys, and content of exactly content-length bytes.
IsValidHeader(h, n) ==
    /\ h.exc = NoExc
    /\ h.v.t = "dict"
    /\ \A i \in 1..Len(RequiredHeaders) : HasKey(h.v, RequiredHeaders[i])
    /\ GetItem(h.v, K_content_length) = PyInt(n)

IsValidMessage(bs) ==
    /\ Len(bs) >= 2
    /\ LET hl == unpack_H(SliceTo(bs, 2))
       IN  /\ Len(bs) >= 2 + hl
           /\ IsValidHeader(_json_decode(SubSeq(bs, 3, 2 + hl), PyStr(E_utf_8)),
                            Len(bs) - 2 - hl)

ValidPlans == {p \in 1..Len(Plans) : IsValidMessage(Plans[p].bytes)}

\* The connection after one read() that receives the whole stream.
Whole(stream) ==
    CHOOSE s \in read(__init__(sys_byteorder, stream)) : s.wire = <<>> /\ ~s.eof

(***************************************************************************)
(* C1.  Fragmentation invariance: a valid wire message fed to read() in    *)
(* any split into chunks leaves the same header length, header and payload *)
(* as one read() of the whole message, and no call before the last raises. *)
(***************************************************************************)
C1_FragmentationInvariance ==
    plan \in ValidPlans =>
        LET whole == Whole(Plans[plan].bytes)
        IN  /\ wire # <<>> => exc = NoExc
            /\ wire = <<>> =>
                   /\ jsonheader_len = whole.jsonheader_len
                   /\ jsonheader = whole.jsonheader
                   /\ request = whole.request

\* A valid message has arrived in two or more chunks and its payload is set.
C1_Witness ==
    /\ plan \in ValidPlans
    /\ event = "read"
    /\ wire = <<>>
    /\ request # PyNone

HeaderLacksRequired ==
    /\ jsonheader.t = "dict"
    /\ \E i \in 1..Len(RequiredHeaders) : ~HasKey(jsonheader, RequiredHeaders[i])

C3_RequiredFieldRejection == HeaderLacksRequired => request = PyNone

(***************************************************************************)
(* C4.  One-shot teardown: _write() has called close() once when the       *)
(* response was queued and the send buffer has drained, and not at all     *)
(* otherwise, in every state, whatever events came before or come after;   *)
(* once it has, the socket reference is released.                          *)
(***************************************************************************)
C4_OneShotTeardown ==
    /\ closes = (IF response_created /\ send_buffer = <<>> THEN 1 ELSE 0)
    /\ closes = 1 => sock = "None"

\* After the close, a further writable event has come and done nothing.
C4_Witness ==
    /\ closes = 1
    /\ event = "write"
    /\ calls = <<>>
    /\ exc = NoExc

(***************************************************************************)
(* C5.  A second close attempt is a no-op: close() on a connection already *)
(* closed raises nothing and changes no field of the connection.           *)
(***************************************************************************)
Fields ==
    <<recv_buffer, send_buffer, jsonheader_len, jsonheader, request,
      response_created, sock>>

C5_SecondCloseNoOp ==
    [][(sock = "None" /\ event' = "close") => (exc' = NoExc /\ Fields' = Fields)]_vars

(***************************************************************************)
(* C6.  Best-effort close: close() on an open connection, called from      *)
(* outside or by _write(), raises nothing, whether or not the unregister   *)
(* and the socket close fail; the socket close is attempted after the      *)
(* unregister, and the socket reference ends released.                     *)
(***************************************************************************)
ClosesSocketAfterUnregister(cs) ==
    \E i \in 1..(Len(cs) - 1) :
        /\ cs[i] \in {"selector.unregister", "selector.unregister:raised"}
        /\ cs[i + 1] \in {"sock.close", "sock.close:raised"}

C6_BestEffortClose ==
    [][(sock # "None" /\ (event' = "close" \/ closes' # closes))
           => (/\ exc' = NoExc
               /\ sock' = "None"
               /\ ClosesSocketAfterUnregister(calls'))]_vars

\* close() has returned with both the unregister and the socket close failed.
C6_Witness ==
    /\ event = "close"
    /\ calls = <<"selector.unregister:raised", "sock.close:raised">>
    /\ exc = NoExc
    /\ sock = "None"

(***************************************************************************)
(* C7.  Non-JSON passthrough: after a read() that returned, with a header  *)
(* whose content-type is not "text/json", the payload is the first         *)
(* content-length bytes received after the header, as they came, once that *)
(* many have been received, and unset while fewer have.                    *)
(***************************************************************************)
\* The bytes read() has received so far.
Delivered ==
    SliceTo(Plans[plan].bytes, Len(Plans[plan].bytes) - Len(wire))

C7_NonJsonPassthrough ==
    LET ct == PyGetItem(jsonheader, K_content_type)
        cl == PyGetItem(jsonheader, K_content_length)
    IN  (/\ event = "read"
         /\ exc = NoExc
         /\ Truthy(jsonheader)
         /\ ct.exc = NoExc
         /\ ct.v # PyStr(T_text_json)
         /\ cl.exc = NoExc
         /\ cl.v.t = "int"
         /\ cl.v.n >= 0)
        => LET buffered == SliceFrom(Delivered, 2 + jsonheader_len.n)
           IN  IF Len(buffered) >= cl.v.n
               THEN request = PyBytes(SliceTo(buffered, cl.v.n))
               ELSE request = PyNone

\* A raw payload has been taken from a buffer that holds more than it.
C7_Witness ==
    /\ event = "read"
    /\ exc = NoExc
    /\ request.t = "bytes"
    /\ Len(request.s) > 0
    /\ Len(recv_buffer) > Len(request.s)

(***************************************************************************)
(* C8.  Empty response for unrecognized content types: after write() on a  *)
(* connection whose request has a content-type other than "text/json", the *)
(* response-created flag is set and what was queued is a framed message    *)
(* with content-encoding "binary", content-length 0 and no content.        *)
(***************************************************************************)
IsEmptyResponse(bs) ==
    /\ Len(bs) >= 2
    /\ Len(bs) = 2 + unpack_H(SliceTo(bs, 2))
    /\ LET h == _json_decode(SliceFrom(bs, 2), PyStr(E_utf_8))
       IN  /\ h.exc = NoExc
           /\ PyGetItem(h.v, K_content_encoding) = Ret(NoExc, PyStr(E_binary))
           /\ PyGetItem(h.v, K_content_length) = Ret(NoExc, PyInt(0))

C8_EmptyResponse ==
    LET ct == PyGetItem(jsonheader, K_content_type)
    IN  (/\ event = "write"
         /\ Truthy(request)
         /\ ct.exc = NoExc
         /\ ct.v # PyStr(T_text_json))
        => (/\ exc # "TypeError"
            /\ response_created
            /\ IsEmptyResponse(out \o send_buffer))

(***************************************************************************)
(* C9.  Response synthesis once per connection: after write() on a         *)
(* connection whose "text/json" payload has been extracted, whatever its   *)
(* value, the response has been queued; and what has been queued over the  *)
(* connection's life is nothing or the one response message.               *)
(***************************************************************************)
JsonResponse == _create_message(sys_byteorder, _create_response_json_content).v

C9_ResponseOncePerConnection ==
    /\ (/\ event = "write"
        /\ request # PyNone
        /\ PyGetItem(jsonheader, K_content_type) = Ret(NoExc, PyStr(T_text_json)))
       => response_created
    /\ out \o send_buffer = (IF response_created THEN JsonResponse ELSE <<>>)

(***************************************************************************)
(* The connection left to itself: nobody but _write() calls close(), the   *)
(* peer's stream is a complete valid message, the selector keeps calling   *)
(* both handlers, and the socket does not refuse queued bytes for ever.    *)
(* The fairness conditions are on the steps as the state shows them: a     *)
(* step to event = "read" or "write" is a call of that handler, a step     *)
(* that cuts a prefix off a non-empty send buffer is a sock.send() that    *)
(* took bytes.                                                             *)
(***************************************************************************)
ReadCalled == event' = "read"

WriteCalled == event' = "write"

BytesAccepted ==
    /\ send_buffer # <<>>
    /\ sock = "socket"
    /\ \E sent \in 1..Len(send_buffer) :
           send_buffer' = SliceFrom(send_buffer, sent)

LiveInit == Init /\ plan \in ValidPlans

LiveNext == Read \/ Write \/ ProcessEvents

LiveSpec ==
    /\ LiveInit
    /\ [][LiveNext]_vars
    /\ WF_event(ReadCalled)
    /\ WF_event(WriteCalled)
    /\ WF_send_buffer(BytesAccepted)

(***************************************************************************)
(* C10.  Eventual teardown, for a connection whose handlers keep being     *)
(* called and whose socket keeps taking bytes when any are queued: once a  *)
(* complete valid message has been received, the connection ends closed   *)
(* by _write() with a response queued and all of it sent.                  *)
(***************************************************************************)
C10_EventualTeardown ==
    (plan \in ValidPlans /\ wire = <<>>)
        ~> (/\ sock = "None"
            /\ closes = 1
            /\ response_created
            /\ send_buffer = <<>>
            /\ out # <<>>)

(***************************************************************************)
(* C11.  Spurious notifications are safe: a read() whose recv() found      *)
(* nothing to read raises nothing and leaves the buffers, the header       *)
(* length, the header, the payload and the response flag as they were; so  *)
(* does a write() before the payload is set, or after the response was     *)
(* sent with the send buffer empty, and it sends nothing.                  *)
(***************************************************************************)
FramerState ==
    <<recv_buffer, jsonheader_len, jsonheader, request, response_created,
      send_buffer>>

\* A step of read() on an open socket that neither took bytes nor found the
\* peer closed: its recv() raised BlockingIOError.
WouldBlockRead ==
    /\ sock = "socket"
    /\ event' = "read"
    /\ wire' = wire
    /\ ~eof'

SpuriousWrite ==
    /\ event' = "write"
    /\ request = PyNone \/ (response_created /\ send_buffer = <<>>)

C11_SpuriousNotificationsSafe ==
    [][/\ WouldBlockRead => (exc' = NoExc /\ FramerState' = FramerState)
       /\ SpuriousWrite =>
              (exc' = NoExc /\ out' = out /\ FramerState' = FramerState)]_vars

(***************************************************************************)
(* C12.  The payload stage consumes what it extracts: once the payload is  *)
(* set, the receive buffer holds only the bytes received beyond the end of *)
(* the message, the content-length bytes of the content having been taken  *)
(* from its head.                                                          *)
(***************************************************************************)
C12_PayloadConsumed ==
    LET cl == PyGetItem(jsonheader, K_content_length)
    IN  (request # PyNone /\ cl.exc = NoExc /\ cl.v.t = "int")
        => recv_buffer = SliceFrom(Delivered, 2 + jsonheader_len.n + cl.v.n)

(***************************************************************************)
(* C13.  A header is set only on successful validation: in every state a   *)
(* header that is set is an object holding the four required keys.         *)
(***************************************************************************)
C13_HeaderSetOnlyIfValid ==
    jsonheader # PyNone =>
        /\ jsonheader.t = "dict"
        /\ \A i \in 1..Len(RequiredHeaders) :
               HasKey(jsonheader, RequiredHeaders[i])

(***************************************************************************)
(* C14.  The decode pipeline is monotonic and takes one message: in every  *)
(* state a set payload implies a set header, a set header implies a set    *)
(* header length, and a sent response implies a set payload; and no step   *)
(* changes or unsets a header length, header or payload that is set,       *)
(* whatever bytes arrive afterwards.                                       *)
(***************************************************************************)
PipelineOrdered ==
    /\ request # PyNone => jsonheader # PyNone
    /\ jsonheader # PyNone => jsonheader_len # PyNone
    /\ response_created => request # PyNone

SetFieldsKept ==
    /\ jsonheader_len # PyNone => jsonheader_len' = jsonheader_len
    /\ jsonheader # PyNone => jsonheader' = jsonheader
    /\ request # PyNone => request' = request

C14_MonotonicPipeline == []PipelineOrdered /\ [][SetFieldsKept]_vars

\* A readable event after the response was made, with the bytes that
\* followed the message in the buffer.
C14_Witness ==
    /\ event = "read"
    /\ exc = NoExc
    /\ response_created
    /\ Plans[plan].kind = "trailing"
    /\ wire = <<>>
    /\ Len(recv_buffer) >= MaxTrailing

(***************************************************************************)
(* C15.  Peer-closed is told apart from would-block: a readable event on   *)
(* an open connection whose recv returns no bytes because the peer closed  *)
(* raises RuntimeError after the one recv call and before any stage, so    *)
(* that buffers, header length, header and payload are as before and the   *)
(* connection is neither closed nor its registration changed; a recv that  *)
(* would block raises neither that error nor BlockingIOError.              *)
(***************************************************************************)
PeerClosedRead ==
    /\ sock = "socket"
    /\ event' \in {"read", "process_events"}
    /\ eof'

FlushStep ==
    /\ response_created' = response_created
           => out' \o send_buffer' = out \o send_buffer
    /\ Len(out') >= Len(out)
    /\ SliceTo(out', Len(out)) = out
    /\ closes' > closes => send_buffer' = <<>>

C16_FlushKeepsStream ==
    /\ [](closes > 0 => (send_buffer = <<>> /\ out = JsonResponse))
    /\ [][FlushStep]_vars

\* The writable handler sent the last bytes of the response and closed.
C16_Witness ==
    /\ event = "write"
    /\ closes = 1
    /\ Len(calls) >= 2
    /\ calls[1] = "sock.send"
    /\ calls[2] = "self.close"
    /\ out = JsonResponse
    /\ out # <<>>

(***************************************************************************)
(* C17.  The header-length stage: on a readable event with the header      *)
(* length unset, the stage changes nothing while the buffered bytes,       *)
(* those just received included, are fewer than 2; with 2 or more it sets  *)
(* the header length to 256*b0 + b1 of the first two, a number in          *)
(* 0..65535, and takes exactly those two off the head of the buffer, the   *)
(* rest staying in order (the header stage, when it runs in the same call, *)
(* takes the header span after them).                                      *)
(***************************************************************************)
Buffered == recv_buffer \o SubSeq(wire, 1, Len(wire) - Len(wire'))

ProtoheaderDue ==
    /\ sock = "socket"
    /\ event' \in {"read", "process_events"}
    /\ ~eof'
    /\ jsonheader_len = PyNone

C17_HeaderLengthStage ==
    [][ProtoheaderDue =>
          IF Len(Buffered) < 2
          THEN /\ jsonheader_len' = PyNone
               /\ jsonheader' = PyNone
               /\ recv_buffer' = Buffered
          ELSE /\ jsonheader_len' = PyInt(256 * Buffered[1] + Buffered[2])
               /\ jsonheader_len'.n \in 0..65535
               /\ \/ recv_buffer' = SliceFrom(Buffered, 2)
                  \/ /\ Len(Buffered) >= 2 + jsonheader_len'.n
                     /\ recv_buffer' = SliceFrom(Buffered, 2 + jsonheader_len'.n)
      ]_vars

\* A prefix with a non-zero high byte was taken and the byte after it kept.
C17_Witness ==
    /\ event = "read"
    /\ jsonheader_len = PyInt(258)
    /\ jsonheader = PyNone
    /\ recv_buffer = <<3>>

(***************************************************************************)
(* C18.  Selector interest after the payload stage: a handler call in      *)
(* which the payload is extracted for a content type other than            *)
(* "text/json" leaves the connection registered for write events only; a   *)
(* handler call that extracts a "text/json" payload, or runs any other     *)
(* stage, or none, leaves the registration as it was (the connection       *)
(* closing itself, which unregisters, aside).                              *)
(***************************************************************************)
PayloadExtracted == request = PyNone /\ request' # PyNone

HandlerCall ==
    /\ event' \in {"read", "write", "process_events"}
    /\ closes' = closes

C18_InterestAfterPayload ==
    [][HandlerCall =>
          IF /\ PayloadExtracted
             /\ PyGetItem(jsonheader', K_content_type).v # PyStr(T_text_json)
          THEN events' = "w"
          ELSE events' = events]_vars

\* read() extracted a payload that is not text/json and modified the
\* registration.
C18_Witness ==
    /\ event = "read"
    /\ exc = NoExc
    /\ request # PyNone
    /\ request.t = "bytes"
    /\ events = "w"
    /\ calls = <<"sock.recv", "selector.modify">>

(***************************************************************************)
(* C19.  Order inside one readiness event: a call of process_events with   *)
(* both events in the mask, on an open connection, makes its one recv      *)
(* before anything else and none after a send or a close; and when its     *)
(* read() raised, write() was not run: nothing was sent, queued or closed. *)
(* The errors named are those only read() and its stages raise.            *)
(***************************************************************************)
ReadErrors ==
    {"RuntimeError", "ValueError", "KeyError", "LookupError",
     "UnicodeDecodeError", "JSONDecodeError"}

BothEvents == sock = "socket" /\ event' = "process_events"

C19_ReadBeforeWrite ==
    [][BothEvents =>
          /\ Len(calls') >= 1
          /\ calls'[1] = "sock.recv"
          /\ \A i \in 2..Len(calls') : calls'[i] # "sock.recv"
          /\ exc' \in ReadErrors =>
                 /\ \A i \in 1..Len(calls') :
                        calls'[i] \notin {"sock.send", "self.close"}
                 /\ <<send_buffer, out, response_created, sock, closes>>'
                        = <<send_buffer, out, response_created, sock, closes>>
      ]_vars

\* On a connection just constructed, one call received the whole request,
\* answered it and closed the connection.
C19_Witness ==
    /\ event = "process_events"
    /\ exc = NoExc
    /\ request # PyNone
    /\ response_created
    /\ closes = 1
    /\ sock = "None"
    /\ out = JsonResponse
    /\ Len(calls) >= 3
    /\ calls[1] = "sock.recv"
    /\ calls[2] = "sock.send"
    /\ calls[3] = "self.close"
    /\ recv_buffer = Plans[plan].C

=============================================================================
